---- MODULE Spec2Model ----
(***************************************************************************)
(* A model of generate_report.py: the taxonomy parser, the label           *)
(* reconciler, the scoring and banding functions and the data loader.      *)
(*                                                                         *)
(* Python strings are sequences of one-character strings, so that strip,   *)
(* startswith, slicing and the regular-expression normalisation are        *)
(* computed character by character.  A Python dict is a sequence of        *)
(* <<key, value>> pairs in insertion order.  A score that Python holds as  *)
(* a float rounded to 2 decimals is an integer number of hundredths.       *)
(***************************************************************************)
EXTENDS Integers, Sequences, FiniteSets, TLC

VARIABLES
  pc,               \* position in the function being run
  md_exists,        \* os.path.exists(md_path)
  md_lines,         \* the lines of the taxonomy document
  lineno,           \* number of lines consumed by the for loop
  current,          \* parse_canonical_categories: current
  categories,       \* parse_canonical_categories: categories
  raised,           \* an exception was raised inside the try block
  canonical,        \* the taxonomy (return value of the parser)
  assessment_raw,   \* the raw assessment
  default_score,    \* canonicalize_assessment: default_score
  assessment,       \* the reconciled assessment
  per_cat_scores,   \* generate_pdf: per_cat_scores
  overall,          \* generate_pdf: overall
  scores,           \* mean_score: scores
  mean,             \* mean_score: return value
  score_0_to_5,     \* maturity_label: argument
  label,            \* maturity_label: return value
  data_file,        \* the raw-assessment data file
  client_name,      \* load_client_data: client_name
  findings          \* load_client_data: findings

vars == <<pc, md_exists, md_lines, lineno, current, categories, raised,
          canonical, assessment_raw, default_score, assessment,
          per_cat_scores, overall, scores, mean, score_0_to_5, label,
          data_file, client_name, findings>>

parseVars == <<md_exists, md_lines, lineno, current, categories, raised>>
canonVars == <<assessment_raw, default_score>>
pdfVars   == <<per_cat_scores, overall>>
meanVars  == <<scores, mean>>
bandVars  == <<score_0_to_5, label>>
loadVars  == <<data_file, client_name, findings>>

\* The value of a variable that the function being run does not use.
Unused == <<>>

\* The variables of the functions that are not run hold no value.
IdleParse ==
  /\ md_exists = Unused /\ md_lines = Unused /\ lineno = Unused
  /\ current = Unused /\ categories = Unused /\ raised = Unused
IdleCanon == assessment_raw = Unused /\ default_score = Unused
IdlePdf   == per_cat_scores = Unused /\ overall = Unused
IdleMean  == scores = Unused /\ mean = Unused
IdleBand  == score_0_to_5 = Unused /\ label = Unused
IdleLoad  ==
  data_file = Unused /\ client_name = Unused /\ findings = Unused

\* Python's None.  No string equals it: a string holds single characters.
None == <<"None">>

(***************************************************************************)
(* Strings                                                                 *)
(***************************************************************************)
Whitespace == {" ", "\t", "\n", "\r"}

RECURSIVE LStrip(_)
LStrip(s) ==
  IF s # <<>> /\ Head(s) \in Whitespace THEN LStrip(Tail(s)) ELSE s

RECURSIVE RStrip(_)
RStrip(s) ==
  IF s # <<>> /\ s[Len(s)] \in Whitespace
  THEN RStrip(SubSeq(s, 1, Len(s) - 1))
  ELSE s

\* str.strip()
Strip(s) == RStrip(LStrip(s))

\* str.startswith(prefix)
StartsWith(s, prefix) ==
  Len(s) >= Len(prefix) /\ SubSeq(s, 1, Len(prefix)) = prefix

\* s[n:]
SliceFrom(s, n) == SubSeq(s, n + 1, Len(s))

UpperChars ==
  <<"A","B","C","D","E","F","G","H","I","J","K","L","M",
    "N","O","P","Q","R","S","T","U","V","W","X","Y","Z">>
LowerChars ==
  <<"a","b","c","d","e","f","g","h","i","j","k","l","m",
    "n","o","p","q","r","s","t","u","v","w","x","y","z">>
DigitChars == <<"0","1","2","3","4","5","6","7","8","9">>

LowerChar(c) ==
  IF \E i \in 1..Len(UpperChars) : UpperChars[i] = c
  THEN LowerChars[CHOOSE i \in 1..Len(UpperChars) : UpperChars[i] = c]
  ELSE c

\* str.lower()
Lower(s) == [i \in 1..Len(s) |-> LowerChar(s[i])]

\* The characters the class [a-z0-9] matches.
IsAlnum(c) ==
  \/ \E i \in 1..Len(LowerChars) : LowerChars[i] = c
  \/ \E i \in 1..Len(DigitChars) : DigitChars[i] = c

\* re.sub(r"[^a-z0-9]+", " ", s): each maximal run of other characters
\* becomes one space.
RECURSIVE SubNonAlnum(_)
SubNonAlnum(s) ==
  IF s = <<>> THEN <<>>
  ELSE IF IsAlnum(Head(s)) THEN <<Head(s)>> \o SubNonAlnum(Tail(s))
  ELSE IF Len(s) > 1 /\ ~IsAlnum(s[2]) THEN SubNonAlnum(Tail(s))
  ELSE <<" ">> \o SubNonAlnum(Tail(s))

\* canonicalize_assessment.norm
norm(s) == Strip(SubNonAlnum(Lower(s)))

(***************************************************************************)
(* Dicts and lists                                                         *)
(***************************************************************************)
\* list(d.keys())
Keys(d) == [i \in 1..Len(d) |-> d[i][1]]

\* list(d.values())
Values(d) == [i \in 1..Len(d) |-> d[i][2]]

\* k in d
Has(d, k) == \E i \in 1..Len(d) : d[i][1] = k

\* d[k]
Get(d, k) == d[CHOOSE i \in 1..Len(d) : d[i][1] = k][2]

\* d.get(k, dflt)
GetOr(d, k, dflt) == IF Has(d, k) THEN Get(d, k) ELSE dflt

\* d[k] = v: a key already present keeps its place
Put(d, k, v) ==
  IF Has(d, k)
  THEN [i \in 1..Len(d) |-> IF d[i][1] = k THEN <<k, v>> ELSE d[i]]
  ELSE Append(d, <<k, v>>)

\* x in lst
InList(lst, x) == \E i \in 1..Len(lst) : lst[i] = x

RECURSIVE Sum(_)
Sum(lst) == IF lst = <<>> THEN 0 ELSE Head(lst) + Sum(Tail(lst))

Max(a, b) == IF a >= b THEN a ELSE b

(***************************************************************************)
(* Tables of the program                                                   *)
(***************************************************************************)
Operations == <<"O","p","e","r","a","t","i","o","n","s">>
Users      == <<"U","s","e","r","s">>
Devices    == <<"D","e","v","i","c","e","s">>

\* The tuple ("Operations", "Users", "Devices")
CategoryOrder == <<Operations, Users, Devices>>

DEFAULT_ASSESSMENT ==
  <<
    <<<<"O","p","e","r","a","t","i","o","n","s">>, <<
      <<<<"D","o","c","u","m","e","n","t","a","t","i","o","n"," ","&"," ","K","n","o","w","l","e","d","g","e"," ","B","a","s","e">>, 2>>,
      <<<<"C","h","a","n","g","e"," ","M","a","n","a","g","e","m","e","n","t">>, 2>>,
      <<<<"I","n","c","i","d","e","n","t"," ","&"," ","P","r","o","b","l","e","m"," ","M","a","n","a","g","e","m","e","n","t">>, 2>>,
      <<<<"M","o","n","i","t","o","r","i","n","g"," ","&"," ","A","l","e","r","t","i","n","g">>, 2>>,
      <<<<"R","e","c","o","v","e","r","y"," ","P","l","a","n","n","i","n","g"," ","(","R","T","O"," ","/"," ","R","P","O",")">>, 2>>,
      <<<<"D","i","s","a","s","t","e","r"," ","R","e","c","o","v","e","r","y"," ","P","r","o","c","e","d","u","r","e","s"," ","&"," ","T","e","s","t","i","n","g">>, 2>>,
      <<<<"P","a","t","c","h"," ","&"," ","U","p","d","a","t","e"," ","G","o","v","e","r","n","a","n","c","e">>, 2>>,
      <<<<"A","s","s","e","t"," ","L","i","f","e","c","y","c","l","e"," ","M","a","n","a","g","e","m","e","n","t">>, 2>>,
      <<<<"V","e","n","d","o","r"," ","&"," ","S","a","a","S"," ","G","o","v","e","r","n","a","n","c","e">>, 2>>,
      <<<<"C","o","n","t","r","o","l"," ","A","u","d","i","t","i","n","g"," ","&"," ","E","v","i","d","e","n","c","e"," ","C","o","l","l","e","c","t","i","o","n">>, 2>>,
      <<<<"P","e","r","i","o","d","i","c"," ","A","c","c","e","s","s"," ","&"," ","C","o","n","f","i","g","u","r","a","t","i","o","n"," ","R","e","v","i","e","w","s">>, 2>>,
      <<<<"P","o","l","i","c","y"," ","C","o","m","p","l","i","a","n","c","e"," ","&"," ","A","t","t","e","s","t","a","t","i","o","n">>, 2>>,
      <<<<"T","h","i","r","d","-","P","a","r","t","y"," ","&"," ","S","e","c","u","r","i","t","y"," ","R","e","v","i","e","w"," ","R","e","a","d","i","n","e","s","s">>, 2>>
    >> >>,
    <<<<"U","s","e","r","s">>, <<
      <<<<"U","s","e","r"," ","A","c","c","o","u","n","t"," ","L","i","f","e","c","y","c","l","e"," ","(","J","o","i","n","e","r"," ","/"," ","M","o","v","e","r"," ","/"," ","L","e","a","v","e","r",")">>, 2>>,
      <<<<"A","u","t","h","e","n","t","i","c","a","t","i","o","n"," ","C","o","n","t","r","o","l","s"," ","(","M","F","A",","," ","C","o","n","d","i","t","i","o","n","a","l"," ","A","c","c","e","s","s",")">>, 2>>,
      <<<<"P","r","i","v","i","l","e","g","e","d"," ","A","c","c","e","s","s"," ","M","a","n","a","g","e","m","e","n","t">>, 2>>,
      <<<<"A","c","c","e","s","s"," ","R","e","v","i","e","w","s"," ","&"," ","L","e","a","s","t"," ","P","r","i","v","i","l","e","g","e">>, 2>>,
      <<<<"P","a","s","s","w","o","r","d"," ","M","a","n","a","g","e","m","e","n","t"," ","(","P","a","s","s","w","o","r","d"," ","M","a","n","a","g","e","r"," ","A","d","o","p","t","i","o","n",")">>, 2>>,
      <<<<"M","i","c","r","o","s","o","f","t"," ","3","6","5"," ","/"," ","G","o","o","g","l","e"," ","W","o","r","k","s","p","a","c","e"," ","B","a","c","k","u","p">>, 2>>,
      <<<<"U","s","e","r"," ","D","a","t","a"," ","R","e","t","e","n","t","i","o","n"," ","&"," ","R","e","c","o","v","e","r","y">>, 2>>,
      <<<<"S","e","c","u","r","i","t","y"," ","A","w","a","r","e","n","e","s","s"," ","T","r","a","i","n","i","n","g">>, 2>>,
      <<<<"P","h","i","s","h","i","n","g"," ","&"," ","S","o","c","i","a","l"," ","E","n","g","i","n","e","e","r","i","n","g"," ","D","e","f","e","n","s","e">>, 2>>,
      <<<<"A","c","c","e","p","t","a","b","l","e"," ","U","s","e"," ","&"," ","I","T"," ","P","o","l","i","c","i","e","s"," ","(","U","s","e","r"," ","A","w","a","r","e","n","e","s","s",")">>, 2>>,
      <<<<"U","s","e","r"," ","S","u","p","p","o","r","t"," ","&"," ","E","n","a","b","l","e","m","e","n","t">>, 2>>
    >> >>,
    <<<<"D","e","v","i","c","e","s">>, <<
      <<<<"E","n","d","p","o","i","n","t"," ","P","r","o","t","e","c","t","i","o","n"," ","(","A","V"," ","/"," ","E","D","R",")">>, 2>>,
      <<<<"D","i","s","k"," ","E","n","c","r","y","p","t","i","o","n">>, 2>>,
      <<<<"O","S"," ","&"," ","A","p","p","l","i","c","a","t","i","o","n"," ","C","o","m","p","l","i","a","n","c","e">>, 2>>,
      <<<<"E","n","d","p","o","i","n","t"," ","B","a","c","k","u","p","s">>, 2>>,
      <<<<"E","n","d","p","o","i","n","t"," ","R","e","s","t","o","r","e"," ","T","e","s","t","i","n","g">>, 2>>,
      <<<<"D","e","v","i","c","e"," ","M","a","n","a","g","e","m","e","n","t"," ","P","l","a","t","f","o","r","m"," ","(","M","D","M"," ","/"," ","R","M","M",")">>, 2>>,
      <<<<"P","a","t","c","h"," ","E","n","f","o","r","c","e","m","e","n","t"," ","(","D","e","v","i","c","e","s",")">>, 2>>,
      <<<<"L","o","c","a","l"," ","A","d","m","i","n"," ","C","o","n","t","r","o","l">>, 2>>,
      <<<<"A","s","s","e","t"," ","I","n","v","e","n","t","o","r","y"," ","A","c","c","u","r","a","c","y">>, 2>>,
      <<<<"B","Y","O","D"," ","&"," ","P","e","r","s","o","n","a","l"," ","D","e","v","i","c","e","s">>, 2>>,
      <<<<"D","e","v","i","c","e"," ","L","i","f","e","c","y","c","l","e"," ","&"," ","R","e","p","l","a","c","e","m","e","n","t">>, 2>>
    >> >>
  >>

ALIASES ==
  <<
    <<<<"O","p","e","r","a","t","i","o","n","s">>, <<
      <<<<"B","a","c","k","u","p","s"," ","&"," ","R","e","c","o","v","e","r","y">>, <<"D","i","s","a","s","t","e","r"," ","R","e","c","o","v","e","r","y"," ","P","r","o","c","e","d","u","r","e","s"," ","&"," ","T","e","s","t","i","n","g">>>>,
      <<<<"P","a","t","c","h"," ","M","a","n","a","g","e","m","e","n","t">>, <<"P","a","t","c","h"," ","&"," ","U","p","d","a","t","e"," ","G","o","v","e","r","n","a","n","c","e">>>>,
      <<<<"M","o","n","i","t","o","r","i","n","g"," ","&"," ","A","l","e","r","t","i","n","g">>, <<"M","o","n","i","t","o","r","i","n","g"," ","&"," ","A","l","e","r","t","i","n","g">>>>,
      <<<<"C","h","a","n","g","e"," ","M","a","n","a","g","e","m","e","n","t">>, <<"C","h","a","n","g","e"," ","M","a","n","a","g","e","m","e","n","t">>>>,
      <<<<"D","o","c","u","m","e","n","t","a","t","i","o","n">>, <<"D","o","c","u","m","e","n","t","a","t","i","o","n"," ","&"," ","K","n","o","w","l","e","d","g","e"," ","B","a","s","e">>>>,
      <<<<"V","e","n","d","o","r"," ","M","a","n","a","g","e","m","e","n","t">>, <<"V","e","n","d","o","r"," ","&"," ","S","a","a","S"," ","G","o","v","e","r","n","a","n","c","e">>>>
    >> >>,
    <<<<"U","s","e","r","s">>, <<
      <<<<"M","F","A"," ","A","d","o","p","t","i","o","n">>, <<"A","u","t","h","e","n","t","i","c","a","t","i","o","n"," ","C","o","n","t","r","o","l","s"," ","(","M","F","A",","," ","C","o","n","d","i","t","i","o","n","a","l"," ","A","c","c","e","s","s",")">>>>,
      <<<<"A","c","c","e","s","s"," ","R","e","v","i","e","w","s">>, <<"A","c","c","e","s","s"," ","R","e","v","i","e","w","s"," ","&"," ","L","e","a","s","t"," ","P","r","i","v","i","l","e","g","e">>>>,
      <<<<"S","e","c","u","r","i","t","y"," ","T","r","a","i","n","i","n","g">>, <<"S","e","c","u","r","i","t","y"," ","A","w","a","r","e","n","e","s","s"," ","T","r","a","i","n","i","n","g">>>>,
      <<<<"P","a","s","s","w","o","r","d"," ","H","y","g","i","e","n","e">>, <<"P","a","s","s","w","o","r","d"," ","M","a","n","a","g","e","m","e","n","t"," ","(","P","a","s","s","w","o","r","d"," ","M","a","n","a","g","e","r"," ","A","d","o","p","t","i","o","n",")">>>>,
      <<<<"O","n","/","O","f","f","b","o","a","r","d","i","n","g">>, <<"U","s","e","r"," ","A","c","c","o","u","n","t"," ","L","i","f","e","c","y","c","l","e"," ","(","J","o","i","n","e","r"," ","/"," ","M","o","v","e","r"," ","/"," ","L","e","a","v","e","r",")">>>>,
      <<<<"P","r","i","v","i","l","e","g","e","d"," ","A","c","c","e","s","s">>, <<"P","r","i","v","i","l","e","g","e","d"," ","A","c","c","e","s","s"," ","M","a","n","a","g","e","m","e","n","t">>>>
    >> >>,
    <<<<"D","e","v","i","c","e","s">>, <<
      <<<<"E","n","d","p","o","i","n","t"," ","P","r","o","t","e","c","t","i","o","n">>, <<"E","n","d","p","o","i","n","t"," ","P","r","o","t","e","c","t","i","o","n"," ","(","A","V"," ","/"," ","E","D","R",")">>>>,
      <<<<"D","i","s","k"," ","E","n","c","r","y","p","t","i","o","n">>, <<"D","i","s","k"," ","E","n","c","r","y","p","t","i","o","n">>>>,
      <<<<"O","S"," ","C","o","m","p","l","i","a","n","c","e">>, <<"O","S"," ","&"," ","A","p","p","l","i","c","a","t","i","o","n"," ","C","o","m","p","l","i","a","n","c","e">>>>,
      <<<<"M","D","M"," ","/"," ","P","o","l","i","c","y">>, <<"D","e","v","i","c","e"," ","M","a","n","a","g","e","m","e","n","t"," ","P","l","a","t","f","o","r","m"," ","(","M","D","M"," ","/"," ","R","M","M",")">>>>,
      <<<<"A","s","s","e","t"," ","I","n","v","e","n","t","o","r","y">>, <<"A","s","s","e","t"," ","I","n","v","e","n","t","o","r","y"," ","A","c","c","u","r","a","c","y">>>>,
      <<<<"L","o","c","a","l"," ","A","d","m","i","n"," ","C","o","n","t","r","o","l">>, <<"L","o","c","a","l"," ","A","d","m","i","n"," ","C","o","n","t","r","o","l">>>>
    >> >>
  >>

(***************************************************************************)
(* Bounds                                                                  *)
(***************************************************************************)
\* Scores: 0-5 where 5 = best
MaxScore == 5

\* mean_score: the largest number of entries of a mapping
MaxVals == 3

(***************************************************************************)
(* Scoring and banding                                                     *)
(***************************************************************************)
\* The integer nearest to p / q (p >= 0, q > 0), a tie going to the even
\* one, as round() does on a quotient that a float holds exactly.  A tie
\* needs a divisor that is a multiple of 8; other divisors never reach the
\* last branch.
RoundDiv(p, q) ==
  LET lo == p \div q
      r  == p % q
  IN  IF 2 * r < q THEN lo
      ELSE IF 2 * r > q THEN lo + 1
      ELSE IF lo % 2 = 0 THEN lo ELSE lo + 1

\* round(p / q, 2), in hundredths
Round2(p, q) == RoundDiv(100 * p, q)

\* A faulty variant of mean_score: the quotient is truncated, not rounded.
mean_score_truncating(d) ==
  (100 * Sum(Values(d))) \div Max(Len(Values(d)), 1)

\* mean_score(scores), in hundredths
mean_score(d) ==
  LET vals == Values(d)
  IN  Round2(Sum(vals), Max(Len(vals), 1))

\* A faulty variant of maturity_label: the lower bounds are open.
maturity_label_open(s) ==
  IF s > 425 THEN "Optimized"
  ELSE IF s > 325 THEN "Managed"
  ELSE IF s > 225 THEN "Developing"
  ELSE IF s > 125 THEN "Basic"
  ELSE "At Risk"

\* maturity_label(score_0_to_5), the score in hundredths
maturity_label(s) ==
  IF s >= 425 THEN "Optimized"
  ELSE IF s >= 325 THEN "Managed"
  ELSE IF s >= 225 THEN "Developing"
  ELSE IF s >= 125 THEN "Basic"
  ELSE "At Risk"

\* The label of the i-th entry of a sample mapping: "A", "B", "C", ...
SampleLabel(i) == <<UpperChars[i]>>

\* The mappings label -> integer score in [0, 5] with n entries
ScoreDicts(n) ==
  { [i \in 1..n |-> <<SampleLabel(i), v[i]>>] : v \in [1..n -> 0..MaxScore] }

(***************************************************************************)
(* SpecMean: mean_score applied to a mapping                               *)
(***************************************************************************)
InitMean ==
  /\ pc = "mean_score"
  /\ \E n \in 0..MaxVals : scores \in ScoreDicts(n)
  /\ mean = Unused
  /\ IdleParse
  /\ canonical = Unused
  /\ IdleCanon
  /\ assessment = Unused
  /\ IdlePdf
  /\ IdleBand
  /\ IdleLoad

MeanScore ==
  /\ pc = "mean_score"
  /\ mean' = mean_score(scores)
  /\ pc' = "mean_done"
  /\ UNCHANGED <<scores, parseVars, canonical, canonVars, assessment,
                 pdfVars, bandVars, loadVars>>

NextMean == MeanScore

SpecMean == InitMean /\ [][NextMean]_vars

(***************************************************************************)
(* SpecBand: maturity_label applied to a score of 0.00 .. 5.00             *)
(***************************************************************************)
InitBand ==
  /\ pc = "maturity_label"
  /\ score_0_to_5 \in 0..(100 * MaxScore)
  /\ label = Unused
  /\ IdleParse
  /\ canonical = Unused
  /\ IdleCanon
  /\ assessment = Unused
  /\ IdlePdf
  /\ IdleMean
  /\ IdleLoad

MaturityLabel ==
  /\ pc = "maturity_label"
  /\ label' = maturity_label(score_0_to_5)
  /\ pc' = "label_done"
  /\ UNCHANGED <<score_0_to_5, parseVars, canonical, canonVars, assessment,
                 pdfVars, meanVars, loadVars>>

NextBand == MaturityLabel

SpecBand == InitBand /\ [][NextBand]_vars

(***************************************************************************)
(* Claims about scoring and banding                                        *)
(***************************************************************************)
Abs(x) == IF x < 0 THEN -x ELSE x

\* C6: maturity_label maps every score to exactly one band by closed lower
\* bounds: [4.25, ..) Optimized, [3.25, 4.25) Managed, [2.25, 3.25)
\* Developing, [1.25, 2.25) Basic, below 1.25 At Risk; so 4.25 is Optimized,
\* 4.24 and 3.25 are Managed, 3.24 is Developing and 0.00 is At Risk.
C6_BandsByClosedLowerBounds ==
  pc = "label_done" =>
    /\ (label = "Optimized")  <=> (score_0_to_5 >= 425)
    /\ (label = "Managed")    <=> (score_0_to_5 \in 325..424)
    /\ (label = "Developing") <=> (score_0_to_5 \in 225..324)
    /\ (label = "Basic")      <=> (score_0_to_5 \in 125..224)
    /\ (label = "At Risk")    <=> (score_0_to_5 < 125)
    /\ score_0_to_5 = 0 => label = "At Risk"

\* C6 witness: the boundary score 3.25 has been labelled Managed.
C6_Witness ==
  pc = "label_done" /\ score_0_to_5 = 325 /\ label = "Managed"

\* C7: mean_score returns the arithmetic mean of the values rounded to 2
\* decimals (the hundredth nearest to sum / n), 0 for an empty mapping, and
\* a value in [0, 5] for integer values in [0, 5]; {A:2, B:3, C:4} gives
\* 3.00.
C7_MeanRoundedToHundredths ==
  pc = "mean_done" =>
    LET n == Len(scores)
        total == Sum(Values(scores))
    IN  /\ n = 0 => mean = 0
        /\ n > 0 => 2 * Abs(n * mean - 100 * total) <= n
        /\ mean \in 0..(100 * MaxScore)
        /\ Values(scores) = <<2, 3, 4>> => mean = 300

\* C7 witness: a mean that needs rounding, 8 / 3 = 2.67.
C7_Witness ==
  pc = "mean_done" /\ Values(scores) = <<3, 3, 2>> /\ mean = 267

(***************************************************************************)
(* parse_canonical_categories                                              *)
(***************************************************************************)
\* The longest taxonomy document, in lines
MaxLines == 3

\* "## Operations"
LineOperations == <<"#","#"," ","O","p","e","r","a","t","i","o","n","s">>
\* "## Users"
LineUsers == <<"#","#"," ","U","s","e","r","s">>
\* "##  Devices "
LineDevices == <<"#","#"," "," ","D","e","v","i","c","e","s"," ">>
\* "## Random"
LineRandom == <<"#","#"," ","R","a","n","d","o","m">>
\* "### Notes"
LineNotes == <<"#","#","#"," ","N","o","t","e","s">>
\* "- a"
LineBulletA == <<"-"," ","a">>
\* "  - b  "
LineBulletB == <<" "," ","-"," ","b"," "," ">>
\* "text"
LineText == <<"t","e","x","t">>

\* The lines a taxonomy document is made of.
DocLines ==
  {LineOperations, LineUsers, LineDevices, LineRandom,
   LineNotes, LineBulletA, LineBulletB, LineText}

\* All documents of at most MaxLines lines
Documents == UNION { [1..n -> DocLines] : n \in 0..MaxLines }

\* {k: list(v.keys()) for k, v in DEFAULT_ASSESSMENT.items()}
DefaultTaxonomy ==
  [i \in 1..Len(DEFAULT_ASSESSMENT) |->
     <<DEFAULT_ASSESSMENT[i][1], Keys(DEFAULT_ASSESSMENT[i][2])>>]

\* A faulty variant of ParseLine: a heading that names no category leaves the
\* scope open.
ParseLineKeepingScope(raw_line, cur, cats) ==
  LET line == Strip(raw_line)
  IN  IF StartsWith(line, <<"#","#"," ">>) /\ ~StartsWith(line, <<"#","#","#">>)
      THEN LET h2 == Strip(SliceFrom(line, 3))
           IN  IF InList(CategoryOrder, h2)
               THEN <<h2, Put(cats, h2, <<>>)>>
               ELSE <<cur, cats>>
      ELSE IF StartsWith(line, <<"-"," ">>) /\ cur # None
      THEN LET item == RStrip(Strip(SliceFrom(line, 2)))
           IN  <<cur, Put(cats, cur, Append(Get(cats, cur), item))>>
      ELSE <<cur, cats>>

\* The body of the for loop: <<current, categories>> after raw_line
ParseLine(raw_line, cur, cats) ==
  LET line == Strip(raw_line)
  IN  IF StartsWith(line, <<"#","#"," ">>) /\ ~StartsWith(line, <<"#","#","#">>)
      THEN LET h2 == Strip(SliceFrom(line, 3))
           IN  IF InList(CategoryOrder, h2)
               THEN <<h2, Put(cats, h2, <<>>)>>
               ELSE <<None, cats>>
      ELSE IF StartsWith(line, <<"-"," ">>) /\ cur # None
      THEN LET item == RStrip(Strip(SliceFrom(line, 2)))
           IN  <<cur, Put(cats, cur, Append(Get(cats, cur), item))>>
      ELSE <<cur, cats>>

\* [x for x in lst if not (x in seen or seen.add(x))]
RECURSIVE DedupFrom(_, _)
DedupFrom(lst, seen) ==
  IF lst = <<>> THEN <<>>
  ELSE IF Head(lst) \in seen THEN DedupFrom(Tail(lst), seen)
  ELSE <<Head(lst)>> \o DedupFrom(Tail(lst), seen \cup {Head(lst)})

\* The loop that deduplicates every list of categories
Deduplicated(cats) ==
  [i \in 1..Len(cats) |-> <<cats[i][1], DedupFrom(cats[i][2], {})>>]

InitParse ==
  /\ pc = "parse"
  /\ md_exists \in BOOLEAN
  /\ md_lines \in (IF md_exists THEN Documents ELSE {<<>>})
  /\ lineno = 0
  /\ current = None
  /\ categories = <<>>
  /\ raised = FALSE
  /\ canonical = Unused
  /\ IdleCanon /\ assessment = Unused /\ IdlePdf
  /\ IdleMean /\ IdleBand /\ IdleLoad

parseRest ==
  <<canonVars, assessment, pdfVars, meanVars, bandVars, loadVars>>

\* if not os.path.exists(md_path): return the defaults
ReturnDefaultsWhenMissing ==
  /\ pc = "parse"
  /\ ~md_exists
  /\ canonical' = DefaultTaxonomy
  /\ pc' = "returned"
  /\ UNCHANGED <<md_exists, md_lines, lineno, current, categories, raised,
                 parseRest>>

\* open(md_path) succeeds
OpenDocument ==
  /\ pc = "parse"
  /\ md_exists
  /\ pc' = "reading"
  /\ UNCHANGED <<md_exists, md_lines, lineno, current, categories, raised,
                 canonical, parseRest>>

\* open(md_path) raises (a directory, no permission): except Exception
OpenRaises ==
  /\ pc = "parse"
  /\ md_exists
  /\ raised' = TRUE
  /\ canonical' = DefaultTaxonomy
  /\ pc' = "returned"
  /\ UNCHANGED <<md_exists, md_lines, lineno, current, categories, parseRest>>

\* One iteration of: for raw_line in f
ReadLine ==
  /\ pc = "reading"
  /\ lineno < Len(md_lines)
  /\ LET step == ParseLine(md_lines[lineno + 1], current, categories)
     IN  /\ current' = step[1]
         /\ categories' = step[2]
  /\ lineno' = lineno + 1
  /\ UNCHANGED <<pc, md_exists, md_lines, raised, canonical, parseRest>>

\* Reading the next line raises (an I/O or decoding error): except Exception
ReadRaises ==
  /\ pc = "reading"
  /\ raised' = TRUE
  /\ canonical' = DefaultTaxonomy
  /\ pc' = "returned"
  /\ UNCHANGED <<md_exists, md_lines, lineno, current, categories, parseRest>>

\* The end of the file: deduplicate and return categories
DeduplicateAndReturn ==
  /\ pc = "reading"
  /\ lineno = Len(md_lines)
  /\ categories' = Deduplicated(categories)
  /\ canonical' = categories'
  /\ pc' = "returned"
  /\ UNCHANGED <<md_exists, md_lines, lineno, current, raised, parseRest>>

NextParse ==
  \/ ReturnDefaultsWhenMissing
  \/ OpenDocument
  \/ OpenRaises
  \/ ReadLine
  \/ ReadRaises
  \/ DeduplicateAndReturn

SpecParse == InitParse /\ [][NextParse]_vars

(***************************************************************************)
(* Claims about parse_canonical_categories                                 *)
(***************************************************************************)
\* The number of "#" characters a string starts with
RECURSIVE HashCount(_)
HashCount(s) ==
  IF s # <<>> /\ Head(s) = "#" THEN 1 + HashCount(Tail(s)) ELSE 0

\* The level of a markdown heading line ("#", "##", ... then a space), 0 for
\* a line that is no heading
HeadingLevel(raw_line) ==
  LET s == Strip(raw_line)
      n == HashCount(s)
  IN  IF n >= 1 /\ Len(s) > n /\ s[n + 1] = " " THEN n ELSE 0

\* The text of a heading line
HeadingText(raw_line) ==
  LET s == Strip(raw_line) IN Strip(SliceFrom(s, HashCount(s)))

\* A bullet line and its item
IsBulletLine(raw_line) == StartsWith(Strip(raw_line), <<"-"," ">>)
BulletItem(raw_line) == Strip(SliceFrom(Strip(raw_line), 2))

SetMax(S) == CHOOSE x \in S : \A y \in S : y <= x

\* The scope line j of the document lies in, when the headings of the given
\* levels are the ones that open and close scopes: the category named by the
\* last such heading above line j, None when there is none or it names no
\* category.
ScopeOfLine(j, levels) ==
  LET above == { k \in 1..(j - 1) : HeadingLevel(md_lines[k]) \in levels }
  IN  IF above = {} THEN None
      ELSE LET text == HeadingText(md_lines[SetMax(above)])
           IN  IF InList(CategoryOrder, text) THEN text ELSE None

\* Every item collected so far comes from a bullet line read in the scope of
\* its category.
CollectedInScope(levels) ==
  \A i \in 1..Len(categories) :
    \A n \in 1..Len(categories[i][2]) :
      \E j \in 1..lineno :
        /\ IsBulletLine(md_lines[j])
        /\ BulletItem(md_lines[j]) = categories[i][2][n]
        /\ ScopeOfLine(j, levels) = categories[i][1]

AllHeadingLevels == 1..6

\* C3 as stated: every heading line, whichever its level, that does not name
\* a category closes the scope, so no bullet below it is collected.
C3_AnyHeadingClosesScope ==
  /\ current = ScopeOfLine(lineno + 1, AllHeadingLevels)
  /\ CollectedInScope(AllHeadingLevels)

\* C3 as amended: a scope is opened only by a second-level heading ("## ")
\* whose text is exactly Operations, Users or Devices, and any other
\* second-level heading closes it (headings of other levels leave the scope
\* as it is); a bullet below a closing heading, or above the first category
\* heading, is never added to a list.
C3_SecondLevelHeadingClosesScope ==
  /\ current = ScopeOfLine(lineno + 1, {2})
  /\ CollectedInScope({2})

\* C3 witness: the bullet under "## Random" has been read and dropped.
C3_Witness ==
  /\ md_lines = <<LineOperations, LineRandom, LineBulletA>>
  /\ lineno = 3
  /\ current = None
  /\ categories = << <<Operations, <<>>>> >>

\* The items of the bullet lines in the scope of category c, in document
\* order
RECURSIVE ItemsInScope(_, _)
ItemsInScope(c, upto) ==
  IF upto = 0 THEN <<>>
  ELSE LET before == ItemsInScope(c, upto - 1)
       IN  IF IsBulletLine(md_lines[upto]) /\ ScopeOfLine(upto, {2}) = c
           THEN Append(before, BulletItem(md_lines[upto]))
           ELSE before

\* A sequence without the repetitions of its elements: an element stays
\* where it occurs first.
RECURSIVE FirstOccurrences(_)
FirstOccurrences(s) ==
  IF s = <<>> THEN <<>>
  ELSE LET front == SubSeq(s, 1, Len(s) - 1)
       IN  IF InList(front, s[Len(s)])
           THEN FirstOccurrences(front)
           ELSE Append(FirstOccurrences(front), s[Len(s)])

\* C4: for a document that parses, each returned list is the sequence of all
\* bullet items in that category's scope, in document order, without the
\* repetitions.
C4_ListsHoldEveryInScopeBullet ==
  (pc = "returned" /\ md_exists /\ ~raised) =>
    \A i \in 1..Len(canonical) :
      canonical[i][2] =
        FirstOccurrences(ItemsInScope(canonical[i][1], Len(md_lines)))

\* A document whose structure is malformed: no heading names a category.
Malformed(doc) ==
  \A k \in 1..Len(doc) : ~InList(CategoryOrder, HeadingText(doc[k]))

\* C5: the parser returns the built-in default taxonomy whenever the source
\* is missing, is unreadable, raises while being read, or has a malformed
\* structure.
C5_DefaultsOnEveryFailure ==
  (pc = "returned" /\ (~md_exists \/ raised \/ Malformed(md_lines))) =>
    canonical = DefaultTaxonomy

(***************************************************************************)
(* load_client_data                                                        *)
(***************************************************************************)
\* The longest findings list of a data document
MaxFindings == 2

DEFAULT_FINDINGS ==
  << <<"High Risk",
       "Access reviews and least privilege are not enforced on a defined schedule (Users: Access Reviews & Least Privilege).">>,
     <<"High Risk",
       "Change Management is ad-hoc and not documented (Operations: Change Management).">>,
     <<"Quick Win",
       "Improve Monitoring & Alerting coverage for endpoints and key services (Operations: Monitoring & Alerting).">>,
     <<"Quick Win",
       "Implement MDM/RMM baselines for device compliance and policy enforcement (Devices: Device Management Platform).">> >>

\* The [severity, text] items a data document draws its findings from
FindingItems ==
  { <<"High Risk", "No MFA on admin accounts.">>,
    <<"Quick Win", "Enable disk encryption.">>,
    <<"Medium Risk", "Backups are never restored.">> }

\* An assessment entry of a data document
SampleAssessment ==
  << <<Operations, << <<<<"C","h","a","n","g","e"," ","M","a","n","a","g","e","m","e","n","t">>, 4>> >> >> >>

\* The JSON objects a data document holds: each of the three keys is
\* optional.
DataDocuments ==
  LET keys == {"client_name", "assessment", "findings"}
      full(f) == [client_name |-> "Acme Corp",
                  assessment  |-> SampleAssessment,
                  findings    |-> f]
      lists == UNION { [1..n -> FindingItems] : n \in 0..MaxFindings }
  IN  { [k \in D |-> full(f)[k]] : D \in SUBSET keys, f \in lists }

\* data.get(key, dflt) on a JSON object
JsonGet(data, key, dflt) == IF key \in DOMAIN data THEN data[key] ELSE dflt

\* tuple(item)
TupleOf(item) == [i \in 1..Len(item) |-> item[i]]

\* A faulty variant of load_client_data: the test of findings_raw is inverted.
load_client_data_inverted(file) ==
  IF file.exists
  THEN LET findings_raw == JsonGet(file.data, "findings", <<>>)
       IN  << JsonGet(file.data, "client_name", "Client (Sample)"),
              JsonGet(file.data, "assessment", DEFAULT_ASSESSMENT),
              IF findings_raw = <<>>
              THEN [i \in 1..Len(findings_raw) |-> TupleOf(findings_raw[i])]
              ELSE DEFAULT_FINDINGS >>
  ELSE << "Northwind Family Ministries (Sample)", DEFAULT_ASSESSMENT,
          DEFAULT_FINDINGS >>

\* load_client_data(path) for a file that json.load accepts, or no file:
\* <<client_name, assessment, findings>>
load_client_data(file) ==
  IF file.exists
  THEN LET findings_raw == JsonGet(file.data, "findings", <<>>)
       IN  << JsonGet(file.data, "client_name", "Client (Sample)"),
              JsonGet(file.data, "assessment", DEFAULT_ASSESSMENT),
              IF findings_raw # <<>>
              THEN [i \in 1..Len(findings_raw) |-> TupleOf(findings_raw[i])]
              ELSE DEFAULT_FINDINGS >>
  ELSE << "Northwind Family Ministries (Sample)", DEFAULT_ASSESSMENT,
          DEFAULT_FINDINGS >>

\* The data file: missing, present with text json.load rejects, or present
\* with a JSON object
DataFiles ==
  {[exists |-> FALSE, valid_json |-> FALSE, data |-> <<>>],
   [exists |-> TRUE, valid_json |-> FALSE, data |-> <<>>]}
  \cup {[exists |-> TRUE, valid_json |-> TRUE, data |-> d] : d \in DataDocuments}

InitLoad ==
  /\ pc = "load_client_data"
  /\ data_file \in DataFiles
  /\ client_name = Unused
  /\ findings = Unused
  /\ assessment_raw = Unused
  /\ default_score = Unused
  /\ IdleParse /\ canonical = Unused /\ assessment = Unused /\ IdlePdf
  /\ IdleMean /\ IdleBand

loadRest ==
  <<parseVars, canonical, default_score, assessment, pdfVars, meanVars,
    bandVars>>

\* load_client_data returns
LoadClientData ==
  /\ pc = "load_client_data"
  /\ data_file.exists => data_file.valid_json
  /\ LET loaded == load_client_data(data_file)
     IN  /\ client_name' = loaded[1]
         /\ assessment_raw' = loaded[2]
         /\ findings' = loaded[3]
  /\ pc' = "loaded"
  /\ UNCHANGED <<data_file, loadRest>>

\* json.load raises: nothing in load_client_data or main catches it
JsonLoadRaises ==
  /\ pc = "load_client_data"
  /\ data_file.exists /\ ~data_file.valid_json
  /\ pc' = "error"
  /\ UNCHANGED <<data_file, client_name, assessment_raw, findings, loadRest>>

NextLoad == LoadClientData \/ JsonLoadRaises

SpecLoad == InitLoad /\ [][NextLoad]_vars

(***************************************************************************)
(* Claims about load_client_data                                           *)
(***************************************************************************)
\* The findings entry of the data document, the empty list when it has none
FindingsEntry == JsonGet(data_file.data, "findings", <<>>)

\* C9 as stated: for every data document that is present the findings
\* returned are the document's findings entry, and the built-in sample
\* findings are used only when the data file is missing.
C9_FindingsVerbatimDefaultsOnlyWhenMissing ==
  pc = "loaded" =>
    /\ data_file.exists => findings = FindingsEntry
    /\ findings = DEFAULT_FINDINGS => ~data_file.exists

\* C9 as amended: for every data document that is present and has a
\* non-empty findings entry, the findings returned are the same pairs, in
\* the same order and number; the built-in sample findings are used when the
\* data file is missing and when the document's findings entry is absent or
\* empty.
C9_FindingsVerbatimWhenNonEmpty ==
  pc = "loaded" =>
    /\ (data_file.exists /\ FindingsEntry # <<>>) =>
         /\ Len(findings) = Len(FindingsEntry)
         /\ \A i \in 1..Len(findings) :
              /\ Len(findings[i]) = 2
              /\ findings[i][1] = FindingsEntry[i][1]
              /\ findings[i][2] = FindingsEntry[i][2]
    /\ (~data_file.exists \/ FindingsEntry = <<>>) =>
         findings = DEFAULT_FINDINGS

\* C9 witness: a document with two different findings has been loaded.
C9_Witness ==
  /\ pc = "loaded"
  /\ data_file.exists
  /\ Len(FindingsEntry) = 2
  /\ FindingsEntry[1] # FindingsEntry[2]
  /\ findings = FindingsEntry

(***************************************************************************)
(* canonicalize_assessment                                                 *)
(***************************************************************************)
\* The labels and raw keys of an input, counted over all categories
MaxEntries == 3

\* main: canonicalize_assessment(..., default_score=2)
MainDefaultScore == 2

\* A category name outside the three: "Network"
Network == <<"N","e","t","w","o","r","k">>
\* A canonical label of Operations: "Patch & Update Governance"
PatchGovernance == <<"P","a","t","c","h"," ","&"," ","U","p","d","a","t","e"," ","G","o","v","e","r","n","a","n","c","e">>
\* The same words with another separator: "Patch / Update Governance"
PatchGovernanceSlash == <<"P","a","t","c","h"," ","/"," ","U","p","d","a","t","e"," ","G","o","v","e","r","n","a","n","c","e">>
\* The legacy name ALIASES maps to it in Operations: "Patch Management"
PatchManagement == <<"P","a","t","c","h"," ","M","a","n","a","g","e","m","e","n","t">>
\* A spelling that differs in case and punctuation: "patch-update governance"
PatchGovernanceLoose == <<"p","a","t","c","h","-","u","p","d","a","t","e"," ","g","o","v","e","r","n","a","n","c","e">>

\* An optional score: <<>> is None, <<v>> is the score v.
NoScore == <<>>

\* {norm(k): v for k, v in raw_cat.items()}: a later key replaces the score
\* of an earlier key with the same normalized form.
RECURSIVE NormalizedRaw(_)
NormalizedRaw(raw_cat) ==
  IF raw_cat = <<>> THEN <<>>
  ELSE LET n == Len(raw_cat)
       IN  Put(NormalizedRaw(SubSeq(raw_cat, 1, n - 1)),
               norm(raw_cat[n][1]), raw_cat[n][2])

\* The alias loop: the score of the first entry (old, new) of alias_map with
\* new == sc and old in raw_cat
AliasScore(sc, raw_cat, alias_map) ==
  LET hits == { i \in 1..Len(alias_map) :
                  alias_map[i][2] = sc /\ Has(raw_cat, alias_map[i][1]) }
  IN  IF hits = {} THEN NoScore
      ELSE <<Get(raw_cat, alias_map[CHOOSE i \in hits : \A j \in hits : i <= j][1])>>

\* A faulty variant of ResolveScore: the normalized match is tried before the alias
\* table.
ResolveScoreNormalizedFirst(sc, raw_cat, normalized_raw, alias_map) ==
  IF Has(raw_cat, sc) THEN <<Get(raw_cat, sc)>>
  ELSE IF Has(normalized_raw, norm(sc)) THEN <<Get(normalized_raw, norm(sc))>>
  ELSE AliasScore(sc, raw_cat, alias_map)

\* The body of "for sc in subcats" up to the assignment: the score found for
\* sc, or None
ResolveScore(sc, raw_cat, normalized_raw, alias_map) ==
  IF Has(raw_cat, sc) THEN <<Get(raw_cat, sc)>>
  ELSE LET score == AliasScore(sc, raw_cat, alias_map)
       IN  IF score # NoScore THEN score
           ELSE LET ns == norm(sc)
                IN  IF Has(normalized_raw, ns)
                    THEN <<Get(normalized_raw, ns)>>
                    ELSE NoScore

\* "for sc in subcats": mapped after the first n labels
RECURSIVE MapSubcats(_, _, _, _, _)
MapSubcats(subcats, n, raw_cat, alias_map, dflt) ==
  IF n = 0 THEN <<>>
  ELSE LET sc == subcats[n]
           score == ResolveScore(sc, raw_cat, NormalizedRaw(raw_cat), alias_map)
       IN  Put(MapSubcats(subcats, n - 1, raw_cat, alias_map, dflt), sc,
               IF score # NoScore THEN score[1] ELSE dflt)

\* A faulty variant of MapCategory: a label with no score found is left out.
RECURSIVE MapSubcatsFound(_, _, _, _)
MapSubcatsFound(subcats, n, raw_cat, alias_map) ==
  IF n = 0 THEN <<>>
  ELSE LET sc == subcats[n]
           score == ResolveScore(sc, raw_cat, NormalizedRaw(raw_cat), alias_map)
           before == MapSubcatsFound(subcats, n - 1, raw_cat, alias_map)
       IN  IF score # NoScore THEN Put(before, sc, score[1]) ELSE before

MapCategoryWithoutDefaults(category, raw, canon, dflt) ==
  MapSubcatsFound(GetOr(canon, category, <<>>),
                  Len(GetOr(canon, category, <<>>)),
                  GetOr(raw, category, <<>>),
                  GetOr(ALIASES, category, <<>>))

\* One iteration of "for category in (...)": mapped
MapCategory(category, raw, canon, dflt) ==
  LET subcats   == GetOr(canon, category, <<>>)
      raw_cat   == GetOr(raw, category, <<>>)
      alias_map == GetOr(ALIASES, category, <<>>)
  IN  MapSubcats(subcats, Len(subcats), raw_cat, alias_map, dflt)

\* A faulty variant of canonicalize_assessment: the loop runs over the taxonomy's
\* categories.
canonicalize_over_taxonomy(raw, canon, dflt) ==
  [i \in 1..Len(canon) |->
     <<canon[i][1], MapCategory(canon[i][1], raw, canon, dflt)>>]

\* canonicalize_assessment(assessment_raw, canonical, default_score)
canonicalize_assessment(raw, canon, dflt) ==
  [i \in 1..Len(CategoryOrder) |->
     <<CategoryOrder[i], MapCategory(CategoryOrder[i], raw, canon, dflt)>>]

(***************************************************************************)
(* SpecCanon: canonicalize_assessment applied to a taxonomy and a raw      *)
(* assessment                                                              *)
(***************************************************************************)
\* The subcategory labels of the taxonomies
TaxonomyLabels == {PatchGovernance, PatchGovernanceSlash}

\* The keys and the scores of the raw assessments
RawKeys == {PatchGovernance, PatchManagement, PatchGovernanceLoose}
RawScores == {0, MaxScore}

\* The default scores
DefaultScores == {MainDefaultScore, 3}

\* The categories an input names: the three, or one of them and another one
InputCategories == {<<Operations, Users, Devices>>, <<Users, Network>>}

\* The label lists of length n
LabelLists(n) == [1..n -> TaxonomyLabels]

\* The label -> score mappings with n keys, in every order
RawMappings(n) ==
  { d \in [1..n -> RawKeys \X RawScores] :
      \A i, j \in 1..n : d[i][1] = d[j][1] => i = j }

\* The dicts over the categories ks whose values, drawn from bySize[a] for a
\* size a, have t entries in all
RECURSIVE DictsOfSize(_, _, _)
DictsOfSize(ks, t, bySize) ==
  IF ks = <<>> THEN (IF t = 0 THEN {<<>>} ELSE {})
  ELSE UNION { { << <<Head(ks), v>> >> \o rest :
                   v \in bySize[a], rest \in DictsOfSize(Tail(ks), t - a, bySize) } :
               a \in 0..t }

Taxonomies(t) ==
  UNION { DictsOfSize(ks, t, [a \in 0..t |-> LabelLists(a)]) :
          ks \in InputCategories }
RawAssessments(t) ==
  UNION { DictsOfSize(ks, t, [a \in 0..t |-> RawMappings(a)]) :
          ks \in InputCategories }

\* The inputs <<canonical, assessment_raw>> of at most MaxEntries entries
CanonInputs ==
  UNION { Taxonomies(t) \X RawAssessments(r) :
          <<t, r>> \in { p \in (0..MaxEntries) \X (0..MaxEntries) :
                          p[1] + p[2] <= MaxEntries } }

InitCanon ==
  /\ pc = "canonicalize_assessment"
  /\ \E in \in CanonInputs : canonical = in[1] /\ assessment_raw = in[2]
  /\ default_score \in DefaultScores
  /\ assessment = Unused
  /\ IdleParse /\ IdlePdf /\ IdleMean /\ IdleBand /\ IdleLoad

Canonicalize ==
  /\ pc = "canonicalize_assessment"
  /\ assessment' =
       canonicalize_assessment(assessment_raw, canonical, default_score)
  /\ pc' = "canonicalized"
  /\ UNCHANGED <<canonical, canonVars, parseVars, pdfVars, meanVars,
                 bandVars, loadVars>>

NextCanon == Canonicalize

SpecCanon == InitCanon /\ [][NextCanon]_vars

(***************************************************************************)
(* Claims about canonicalize_assessment                                    *)
(***************************************************************************)
\* The elements of a list
Elements(lst) == { lst[i] : i \in 1..Len(lst) }

\* The taxonomy's labels, the raw scores and the output of a category
SubcatsOf(c) == GetOr(canonical, c, <<>>)
RawOf(c) == GetOr(assessment_raw, c, <<>>)
MappedOf(c) == Get(assessment, c)

\* C1: for each of the three categories the key set of the output equals
\* the set of labels the taxonomy lists for it, whatever keys the raw
\* assessment holds, and each label carries exactly one score.
C1_KeySetEqualsTaxonomy ==
  pc = "canonicalized" =>
    \A k \in 1..Len(CategoryOrder) :
      LET c == CategoryOrder[k]
      IN  /\ Has(assessment, c)
          /\ Elements(Keys(MappedOf(c))) = Elements(SubcatsOf(c))
          /\ \A i, j \in 1..Len(MappedOf(c)) :
               MappedOf(c)[i][1] = MappedOf(c)[j][1] => i = j
          /\ \A i \in 1..Len(MappedOf(c)) : MappedOf(c)[i][2] \in Int

\* C1 witness: a category with a raw key that is no label of the taxonomy
\* and a label that is no raw key has been reconciled.
C1_Witness ==
  /\ pc = "canonicalized"
  /\ \E k \in 1..Len(CategoryOrder) :
       LET c == CategoryOrder[k]
       IN  /\ Elements(Keys(RawOf(c))) \ Elements(SubcatsOf(c)) # {}
           /\ Elements(SubcatsOf(c)) \ Elements(Keys(RawOf(c))) # {}
           /\ Elements(Keys(MappedOf(c))) = Elements(SubcatsOf(c))

\* The raw scores a label can take by each path
AliasOlds(c, sc) ==
  { old \in Elements(Keys(RawOf(c))) :
      \E i \in 1..Len(GetOr(ALIASES, c, <<>>)) :
        GetOr(ALIASES, c, <<>>)[i] = <<old, sc>> }
NormalizedKeys(c, sc) ==
  { key \in Elements(Keys(RawOf(c))) : norm(key) = norm(sc) }

\* C2: the score of a canonical label is, first match wins, (1) the raw
\* score under the label itself, (2) the raw score under a raw key the
\* category's alias table maps to the label, (3) the raw score under a raw
\* key with the label's normalized form, (4) default_score.
C2_PrecedenceExactAliasNormalizedDefault ==
  pc = "canonicalized" =>
    \A k \in 1..Len(CategoryOrder) :
      LET c == CategoryOrder[k]
      IN  \A sc \in Elements(SubcatsOf(c)) :
            LET got == Get(MappedOf(c), sc)
            IN  IF Has(RawOf(c), sc) THEN got = Get(RawOf(c), sc)
                ELSE IF AliasOlds(c, sc) # {}
                THEN got \in { Get(RawOf(c), old) : old \in AliasOlds(c, sc) }
                ELSE IF NormalizedKeys(c, sc) # {}
                THEN got \in { Get(RawOf(c), key) : key \in NormalizedKeys(c, sc) }
                ELSE got = default_score

\* C2 witness: a label reachable by its alias and by its normalized form,
\* with different scores, has taken the score of the alias.
C2_Witness ==
  /\ pc = "canonicalized"
  /\ InList(SubcatsOf(Operations), PatchGovernance)
  /\ ~Has(RawOf(Operations), PatchGovernance)
  /\ Has(RawOf(Operations), PatchManagement)
  /\ Has(RawOf(Operations), PatchGovernanceLoose)
  /\ Get(RawOf(Operations), PatchManagement)
       # Get(RawOf(Operations), PatchGovernanceLoose)
  /\ Get(MappedOf(Operations), PatchGovernance)
       = Get(RawOf(Operations), PatchManagement)

\* C10: the result has exactly the categories Operations, Users, Devices,
\* in that order; a category the taxonomy lacks has an empty mapping, a
\* category the raw data lacks has every label at default_score, and the
\* labels of a category appear in the taxonomy's order.
C10_ThreeCategoriesInOrder ==
  pc = "canonicalized" =>
    /\ Keys(assessment) = CategoryOrder
    /\ \A k \in 1..Len(CategoryOrder) :
         LET c == CategoryOrder[k]
         IN  /\ ~Has(canonical, c) => assessment[k][2] = <<>>
             /\ ~Has(assessment_raw, c) =>
                  \A i \in 1..Len(assessment[k][2]) :
                    assessment[k][2][i][2] = default_score
             /\ Keys(assessment[k][2]) = FirstOccurrences(SubcatsOf(c))

\* C10 witness: a taxonomy that lacks Operations and Devices and lists a
\* label for Network and two for Users has been reconciled.
C10_Witness ==
  /\ pc = "canonicalized"
  /\ ~Has(canonical, Operations) /\ ~Has(canonical, Devices)
  /\ Has(canonical, Network) /\ Get(canonical, Network) # <<>>
  /\ Len(SubcatsOf(Users)) = 2
  /\ SubcatsOf(Users)[1] # SubcatsOf(Users)[2]
  /\ Keys(assessment) = CategoryOrder

(***************************************************************************)
(* generate_pdf: the category scores and the overall score                 *)
(***************************************************************************)
\* The longest label list of a category of the report's taxonomy
MaxSubcats == 2

\* A faulty variant of generate_pdf_scores: the overall score is the mean of all
\* subcategory scores, not of the category means.
RECURSIVE AllScores(_)
AllScores(a) ==
  IF a = <<>> THEN <<>> ELSE Values(Head(a)[2]) \o AllScores(Tail(a))

generate_pdf_scores_pooled(a) ==
  << [i \in 1..Len(a) |-> <<a[i][1], mean_score(a[i][2])>>],
     Round2(Sum(AllScores(a)), Max(Len(AllScores(a)), 1)) >>

\* generate_pdf: <<per_cat_scores, overall>>, in hundredths
generate_pdf_scores(a) ==
  LET per_cat == [i \in 1..Len(a) |-> <<a[i][1], mean_score(a[i][2])>>]
  IN  <<per_cat, RoundDiv(Sum(Values(per_cat)), 3)>>

\* The scores of a reconciled assessment: raw scores and main's default
ReportScores == RawScores \cup {MainDefaultScore}

\* The mappings a reconciled category holds: at most MaxSubcats labels
ReconciledCategories ==
  UNION { { [i \in 1..n |-> <<SampleLabel(i), v[i]>>] :
              v \in [1..n -> ReportScores] } : n \in 0..MaxSubcats }

\* main has reconciled the assessment, which holds the three categories in
\* their order (canonicalize_assessment builds it so); generate_pdf is about
\* to run.
InitPdf ==
  /\ pc = "generate_pdf"
  /\ \E ops \in ReconciledCategories, usr \in ReconciledCategories,
        dev \in ReconciledCategories :
       assessment = << <<Operations, ops>>, <<Users, usr>>, <<Devices, dev>> >>
  /\ per_cat_scores = Unused
  /\ overall = Unused
  /\ canonical = Unused
  /\ IdleCanon /\ IdleParse /\ IdleMean /\ IdleBand /\ IdleLoad

GeneratePdfScores ==
  /\ pc = "generate_pdf"
  /\ LET computed == generate_pdf_scores(assessment)
     IN  /\ per_cat_scores' = computed[1]
         /\ overall' = computed[2]
  /\ pc' = "pdf_done"
  /\ UNCHANGED <<canonical, canonVars, assessment, parseVars, meanVars,
                 bandVars, loadVars>>

NextPdf == GeneratePdfScores

SpecPdf == InitPdf /\ [][NextPdf]_vars

(***************************************************************************)
(* Claims about generate_pdf                                               *)
(***************************************************************************)
\* C8: the overall score is the arithmetic mean of exactly the three
\* category means (Operations, Users, Devices) of the assessment, rounded to
\* 2 decimals, and lies in [0, 5].
C8_OverallIsMeanOfThreeCategoryMeans ==
  pc = "pdf_done" =>
    /\ Keys(per_cat_scores) = CategoryOrder
    /\ \A k \in 1..Len(CategoryOrder) :
         LET vals == Values(Get(assessment, CategoryOrder[k]))
             m == per_cat_scores[k][2]
         IN  /\ vals = <<>> => m = 0
             /\ vals # <<>> => 2 * Abs(Len(vals) * m - 100 * Sum(vals)) <= Len(vals)
    /\ 2 * Abs(3 * overall - (per_cat_scores[1][2] + per_cat_scores[2][2]
                                + per_cat_scores[3][2])) <= 3
    /\ overall \in 0..(100 * MaxScore)

\* C8 witness: category means 5.00, 0.00 and 0.00 (an empty category) give
\* the overall score 1.67.
C8_Witness ==
  /\ pc = "pdf_done"
  /\ Values(per_cat_scores) = <<500, 0, 0>>
  /\ Get(assessment, Devices) = <<>>
  /\ Len(Get(assessment, Operations)) = 2
  /\ overall = 167
====
